---- MODULE Spec2Model ----
(***************************************************************************)
(* whisper: an Ethereum event listener that scans a contract's logs in     *)
(* chunks of blocks, posts each occurrence of one event to a webhook and   *)
(* keeps the next block to scan in a text file (main.go).                  *)
(*                                                                         *)
(* The model follows main() and parseLogs() statement by statement.  The   *)
(* Ethereum node, the webhook endpoint and the file system are the         *)
(* environment: their answers are nondeterministic choices.                *)
(***************************************************************************)
EXTENDS Integers, Sequences, FiniteSets, TLC

\* ------------------------------------------------------------------ bounds
\* Heads the node may report: 0 .. MaxHead.
MaxHead == 3
\* Ticks served by one process run.
MaxCycles == 3
\* Times the process is stopped and started again.
MaxRestarts == 1

\* ------------------------------------------------------- the environment
\* Values of the -c flag (chunkSize) and of the -s flag (startingBlock) tried.
\* flag.Int64Var accepts any int64: a negative chunk size is accepted too.
ChunkSizes == {-1, 1, 2}
StartingBlocks == {0, 1}

\* Four chains.  1: every log decodes.  2: holds logs that fail decoding.
\* 3: holds a log without topics.  4: holds blocks with logs of other events
\* only.
Chains == {1, 2, 3, 4}

\* What the checkpoint file may hold before the process is first started.
PriorFiles == {<<>>, <<"2">>, <<"x">>}

\* The indexed inputs of the watched event (from, to of a Transfer event).
indexed == <<"from", "to">>

\* Topics of the logs on the chains: "evt" is mappedEvent.ID, the signature
\* hash of the watched event; "oth" is the hash of another event.
GoodTopics == <<"evt", "arg", "arg">>
OtherTopics == <<"oth", "arg">>
ShortTopics == <<"evt", "arg">>
NoTopics == <<>>

MkLog(b, i, topics, dataOk) ==
    [BlockNumber |-> b, Index |-> i, Topics |-> topics, DataOk |-> dataOk]

\* The logs the watched address emitted in block b of chain c, in order.
BlockLogs(c, b) ==
    CASE c = 1 ->
           IF b % 2 = 0
           THEN <<MkLog(b, 1, GoodTopics, TRUE)>>
           ELSE <<MkLog(b, 1, OtherTopics, TRUE), MkLog(b, 2, GoodTopics, TRUE)>>
      [] c = 2 ->
           IF b = 0
           THEN <<MkLog(b, 1, GoodTopics, TRUE)>>
           ELSE IF b % 2 = 1
           THEN <<MkLog(b, 1, GoodTopics, TRUE), MkLog(b, 2, ShortTopics, TRUE),
                  MkLog(b, 3, GoodTopics, TRUE)>>
           ELSE <<MkLog(b, 1, GoodTopics, TRUE), MkLog(b, 2, GoodTopics, FALSE)>>
      [] c = 3 ->
           IF b % 2 = 0
           THEN <<MkLog(b, 1, GoodTopics, TRUE)>>
           ELSE <<MkLog(b, 1, GoodTopics, TRUE), MkLog(b, 2, NoTopics, TRUE),
                  MkLog(b, 3, GoodTopics, TRUE)>>
      [] OTHER ->
           IF b % 2 = 0
           THEN <<MkLog(b, 1, OtherTopics, TRUE)>>
           ELSE <<MkLog(b, 1, OtherTopics, TRUE), MkLog(b, 2, GoodTopics, TRUE)>>

\* Answers of the webhook endpoint: a transport error or an HTTP status.
StatusCodes == {199, 200, 299, 300, 500}
Responses == {[err |-> TRUE, StatusCode |-> 0]}
             \cup {[err |-> FALSE, StatusCode |-> c] : c \in StatusCodes}

VARIABLES
    pc,            \* "boot", "idle", "fetch", "parse", "exited", "crashed"
    chain,         \* the chain the node serves
    chunkSize,     \* -c
    startingBlock, \* -s
    db,            \* content of the checkpoint file, a sequence of characters
    currentBlock,  \* main.go:123
    lastBlock,     \* main.go:137
    toBlock,       \* main.go:138
    logs,          \* main.go:152
    idx,           \* position of parseLogs' range loop in logs (1-based)
    cycles,        \* ticks served by this process run
    restarts,      \* times the process has been started again
    \* history variables (written, never read by the program's actions)
    pre,           \* currentBlock and db when the cycle's tick fired
    outcome,       \* how the current or last cycle went
    issued,        \* whether this cycle sent a FilterLogs request
    trace,         \* this cycle's decode/dispatch attempts and answers, in order
    delivered,     \* logs the webhook has acknowledged with a 2xx status
    redelivered,   \* a log was acknowledged a second time
    streak,        \* the current run of consecutive successful cycles
    abortFrom,     \* lower bound of the range whose parseLogs failed last
    lastSaved,     \* the value last written to the checkpoint file
    bootDb,        \* what the file held when this process run was started,
                   \* kept until the run's first cycle is past its head query
    flagS,         \* the -s flag as given on the command line
    tickC,         \* ticks waiting in ticker.C, a channel of capacity 1
    inProgress,    \* cycles started and not yet finished or aborted
    writes,        \* os.WriteFile calls of this cycle
    nOk,           \* successful cycles of this process run
    overlap        \* a range shared a block with the successful range before it

vars == <<pc, chain, chunkSize, startingBlock, db, currentBlock, lastBlock,
          toBlock, logs, idx, cycles, restarts, pre, outcome, issued, trace,
          delivered, redelivered, streak, abortFrom, lastSaved, bootDb, flagS,
          tickC, inProgress, writes, nOk, overlap>>

None == "none"
Nothing == [some |-> FALSE, val |-> 0]
Some(v) == [some |-> TRUE, val |-> v]

\* ------------------------------------------------- text <-> number (db file)
Digits == <<"0", "1", "2", "3", "4", "5", "6", "7", "8", "9">>

DigitValue(ch) == IF \E d \in 1..10 : Digits[d] = ch
                  THEN (CHOOSE d \in 1..10 : Digits[d] = ch) - 1
                  ELSE -1

RECURSIVE FormatNat(_)
FormatNat(n) == IF n < 10 THEN <<Digits[n + 1]>>
                ELSE FormatNat(n \div 10) \o <<Digits[(n % 10) + 1]>>

\* fmt.Sprintf("%d", n)
Sprintf(n) == IF n < 0 THEN <<"-">> \o FormatNat(-n) ELSE FormatNat(n)

RECURSIVE ParseDigits(_, _, _)
\* Value of the digit string s in the given base on top of acc; -1 when a
\* character is no digit of that base.
ParseDigits(s, base, acc) ==
    IF s = <<>> THEN acc
    ELSE LET d == DigitValue(Head(s)) IN
         IF d < 0 \/ d >= base THEN -1
         ELSE ParseDigits(Tail(s), base, acc * base + d)

\* strconv.ParseUint(s, base, bitSize): [val, err].  A base other than 0 or
\* 2..36 is an error whatever s is; base 0 means decimal for the digit
\* strings used here.  A value that does not fit bitSize bits is a range error.
ParseUint(s, base, bitSize) ==
    IF s = <<>> THEN [val |-> 0, err |-> "syntax"]
    ELSE IF ~(base = 0 \/ (2 <= base /\ base <= 36)) THEN [val |-> 0, err |-> "base"]
    ELSE LET b == IF base = 0 THEN 10 ELSE base
             v == ParseDigits(s, b, 0)
         IN IF v < 0 THEN [val |-> 0, err |-> "syntax"]
            ELSE IF bitSize > 0 /\ bitSize < 31 /\ v >= 2 ^ bitSize
            THEN [val |-> 2 ^ bitSize - 1, err |-> "range"]
            ELSE [val |-> v, err |-> None]

\* strconv.ParseInt(s, base, bitSize): [val, err]; val is 0 on a syntax or
\* base error.
ParseInt(s, base, bitSize) ==
    IF s = <<>> THEN [val |-> 0, err |-> "syntax"]
    ELSE LET neg == Head(s) = "-"
             rest == IF Head(s) \in {"+", "-"} THEN Tail(s) ELSE s
             u == ParseUint(rest, base, bitSize)
         IN IF u.err \notin {None, "range"} THEN [val |-> 0, err |-> u.err]
            ELSE IF bitSize > 0 /\ bitSize < 31 /\ ~neg /\ u.val >= 2 ^ (bitSize - 1)
            THEN [val |-> 2 ^ (bitSize - 1) - 1, err |-> "range"]
            ELSE IF bitSize > 0 /\ bitSize < 31 /\ neg /\ u.val > 2 ^ (bitSize - 1)
            THEN [val |-> -(2 ^ (bitSize - 1)), err |-> "range"]
            ELSE [val |-> IF neg THEN -u.val ELSE u.val, err |-> u.err]

\* ------------------------------------------------------------- startup
\* os.OpenFile(db, O_CREATE|O_RDWR|O_TRUNC): the content of the file once
\* it is open.  O_TRUNC empties it.
OpenFile(content) == <<>>

\* Mutant of LoadStartingBlock: a file that does not parse makes the scan
\* start at block 0 instead of the -s value.
LoadStartingBlockZero(data, flagValue) ==
    LET r == ParseInt(data, 64, 10) IN
    IF r.err = None /\ r.val > 0 THEN r.val ELSE 0

\* main.go:82-87: the block to start from, given the bytes read from the
\* file and the value of the -s flag.
LoadStartingBlock(data, flagValue) ==
    LET r == ParseInt(data, 64, 10) IN
    IF r.err = None THEN flagValue
    ELSE IF r.val > 0 THEN r.val
    ELSE flagValue

NoStreak(cp) == [start |-> cp, len |-> 0, minHead |-> MaxHead]

Init ==
    /\ pc = "boot"
    /\ chain \in Chains
    /\ chunkSize \in ChunkSizes
    /\ startingBlock \in StartingBlocks
    /\ db \in PriorFiles
    /\ currentBlock = 0
    /\ lastBlock = 0
    /\ toBlock = 0
    /\ logs = <<>>
    /\ idx = 1
    /\ cycles = 0
    /\ restarts = 0
    /\ pre = [cp |-> 0, db |-> db]
    /\ outcome = None
    /\ issued = FALSE
    /\ trace = <<>>
    /\ delivered = {}
    /\ redelivered = FALSE
    /\ streak = NoStreak(0)
    /\ abortFrom = Nothing
    /\ lastSaved = Nothing
    /\ bootDb = db
    /\ flagS = startingBlock
    /\ tickC = 0
    /\ inProgress = 0
    /\ writes = 0
    /\ nOk = 0
    /\ overlap = FALSE

\* main.go:56-123 when nothing is fatal.
Startup ==
    /\ pc = "boot"
    /\ LET content == OpenFile(db)
           start == LoadStartingBlock(content, startingBlock)
       IN /\ db' = content
          /\ startingBlock' = start
          /\ currentBlock' = start
          /\ pre' = [cp |-> start, db |-> content]
          /\ streak' = NoStreak(start)
    /\ bootDb' = db
    /\ pc' = "idle"
    /\ cycles' = 0
    /\ outcome' = None
    /\ issued' = FALSE
    /\ trace' = <<>>
    /\ abortFrom' = Nothing
    /\ tickC' = 0
    /\ inProgress' = 0
    /\ writes' = 0
    /\ nOk' = 0
    /\ overlap' = FALSE
    /\ UNCHANGED <<chain, chunkSize, lastBlock, toBlock, logs, idx, restarts,
                   delivered, redelivered, lastSaved, flagS>>

\* main.go:57-102: one of the log.Fatal calls of startup.  The file is
\* untouched when the failure comes before or at OpenFile, emptied after it.
StartupFatal ==
    /\ pc = "boot"
    /\ db' \in {db, OpenFile(db)}
    /\ pc' = "exited"
    /\ UNCHANGED <<chain, chunkSize, startingBlock, currentBlock, lastBlock,
                   toBlock, logs, idx, cycles, restarts, pre, outcome, issued,
                   trace, delivered, redelivered, streak, abortFrom, lastSaved,
                   bootDb, flagS, tickC, inProgress, writes, nOk, overlap>>

\* The process is stopped (killed, or it has exited) and started again with
\* the same flags: everything held in memory is lost, flag.Parse sets
\* startingBlock anew, the file stays.
Restart ==
    /\ pc # "boot"
    /\ restarts < MaxRestarts
    /\ restarts' = restarts + 1
    /\ pc' = "boot"
    /\ currentBlock' = 0
    /\ lastBlock' = 0
    /\ toBlock' = 0
    /\ logs' = <<>>
    /\ idx' = 1
    /\ cycles' = 0
    /\ pre' = [cp |-> 0, db |-> db]
    /\ outcome' = None
    /\ issued' = FALSE
    /\ trace' = <<>>
    /\ streak' = NoStreak(0)
    /\ abortFrom' = Nothing
    /\ bootDb' = db
    /\ startingBlock' = flagS
    /\ tickC' = 0
    /\ inProgress' = 0
    /\ writes' = 0
    /\ nOk' = 0
    /\ overlap' = FALSE
    /\ UNCHANGED <<chain, chunkSize, db, delivered, redelivered, lastSaved, flagS>>

\* ------------------------------------------------------------ one cycle
Min(a, b) == IF a < b THEN a ELSE b

\* Mutant of ToBlock: the upper bound is not clamped to the head.
ToBlockUnclamped(current, chunk, last) == current + chunk

\* main.go:138-141
ToBlock(current, chunk, last) ==
    IF last < current + chunk THEN last ELSE current + chunk

\* Mutant of NextBlock: scanning resumes after the inclusive upper bound.
NextBlockPastChunk(current, chunk, to) == current + chunk + 1

\* main.go:163, 167: the checkpoint written and kept after a successful cycle.
NextBlock(current, chunk, to) == current + chunk

RECURSIVE LogsBetween(_, _, _)
LogsBetween(c, from, to) ==
    IF from > to THEN <<>>
    ELSE BlockLogs(c, from) \o LogsBetween(c, from + 1, to)

\* client.FilterLogs with FromBlock = from, ToBlock = to, answered by a node
\* whose head is `head`: the logs of the blocks from..to that the node has,
\* in block order (none when from > to).  ethclient sends a negative bound
\* as a block tag, which the node resolves to its head.
FilterLogs(c, from, to, head) ==
    LET f == IF from < 0 THEN head ELSE from
        t == IF to < 0 THEN head ELSE to
    IN LogsBetween(c, f, Min(t, head))

\* Mutant of Matches: the test of the first topic is missing.
MatchesAnyEvent(l) == TRUE

\* parseLogs, main.go:178
Matches(l) == l.Topics[1] = "evt"

\* abi.ParseTopicsIntoMap (main.go:180) and contractAbi.UnpackIntoMap
\* (main.go:183) both succeed on l.
Decodes(l) == Len(l.Topics) - 1 = Len(indexed) /\ l.DataOk

\* No request was sent for the log (its decoding failed).
NoResponse == [err |-> FALSE, StatusCode |-> 0]

\* Mutant of DeliveryOk: the bounds of the status test are off by one.
DeliveryOkOffByOne(r) == ~r.err /\ ~(r.StatusCode >= 299 \/ r.StatusCode <= 200)

\* main.go:204-211: the request went through and the status is 2xx.
DeliveryOk(r) == ~r.err /\ ~(r.StatusCode > 299 \/ r.StatusCode < 200)

LogId(l) == <<l.BlockNumber, l.Index>>

\* Mutant of Receiving: ticks are served whenever they fire, as by a timer
\* callback, also while a cycle runs.
ReceivingAnyTime == pc \in {"idle", "fetch", "parse"}

\* The loop is blocked in its select on ticker.C (main.go:129-131): a tick
\* that waits in the channel, or the next one to fire, starts a cycle.
Receiving == pc = "idle"

\* The ticker fires while a cycle runs (main.go:122): the tick waits in
\* ticker.C, which holds one tick; a tick that finds it full is dropped.
TimerFires ==
    /\ pc \in {"fetch", "parse"}
    /\ tickC = 0
    /\ tickC' = 1
    /\ UNCHANGED <<pc, chain, chunkSize, startingBlock, db, currentBlock,
                   lastBlock, toBlock, logs, idx, cycles, restarts, pre, outcome,
                   issued, trace, delivered, redelivered, streak, abortFrom,
                   lastSaved, bootDb, flagS, inProgress, writes, nOk, overlap>>

\* The tick fires and client.HeaderByNumber fails (main.go:132-136).
TickHeaderError ==
    /\ Receiving
    /\ tickC' = 0
    /\ writes' = 0
    /\ cycles < MaxCycles
    /\ cycles' = cycles + 1
    /\ pre' = [cp |-> currentBlock, db |-> db]
    /\ outcome' = "headfail"
    /\ issued' = FALSE
    /\ trace' = <<>>
    /\ streak' = NoStreak(currentBlock)
    /\ bootDb' = <<>>
    /\ UNCHANGED <<flagS, inProgress, nOk, overlap,
                   pc, chain, chunkSize, startingBlock, db, currentBlock,
                   lastBlock, toBlock, logs, idx, restarts, delivered,
                   redelivered, abortFrom, lastSaved>>

\* The inclusive range [from, to] of this cycle shares a block with the
\* range of the cycle before it, which ended at prevTo and was successful.
RangesOverlap(prevOk, prevTo, from, to) == prevOk /\ from <= prevTo /\ from <= to

\* The tick fires and the node reports head h (main.go:132-150).
TickHeader ==
    /\ Receiving
    /\ tickC' = 0
    /\ writes' = 0
    /\ cycles < MaxCycles
    /\ \E h \in 0..MaxHead :
         /\ lastBlock' = h
         /\ toBlock' = ToBlock(currentBlock, chunkSize, h)
         /\ streak' = [streak EXCEPT !.minHead = Min(@, h)]
         /\ overlap' = (overlap \/ RangesOverlap(outcome = "ok", toBlock, currentBlock,
                                                 ToBlock(currentBlock, chunkSize, h)))
    /\ cycles' = cycles + 1
    /\ pre' = [cp |-> currentBlock, db |-> db]
    /\ outcome' = "running"
    /\ issued' = FALSE
    /\ trace' = <<>>
    /\ pc' = "fetch"
    /\ inProgress' = inProgress + 1
    /\ UNCHANGED <<bootDb, flagS, nOk,
                   chain, chunkSize, startingBlock, db, currentBlock, logs,
                   idx, restarts, delivered, redelivered, abortFrom, lastSaved>>

\* Mutant of Abort: the cycle is given up but the chunk is stepped over.
AbortSkippingChunk(why) ==
    /\ pc' = "idle"
    /\ inProgress' = inProgress - 1
    /\ outcome' = why
    /\ streak' = NoStreak(currentBlock)
    /\ currentBlock' = currentBlock + chunkSize
    /\ UNCHANGED <<db, lastSaved>>

\* Mutant of Abort: an error met in a cycle ends the process, as log.Fatal
\* in place of log.Printf would.
AbortFatal(why) ==
    /\ pc' = "exited"
    /\ inProgress' = 0
    /\ outcome' = why
    /\ streak' = NoStreak(currentBlock)
    /\ UNCHANGED <<db, currentBlock, lastSaved>>

\* The cycle is given up: `break` leaves the select, the loop waits for the
\* next tick (main.go:135, 155, 160).
Abort(why) ==
    /\ pc' = "idle"
    /\ inProgress' = inProgress - 1
    /\ outcome' = why
    /\ streak' = NoStreak(currentBlock)
    /\ UNCHANGED <<db, currentBlock, lastSaved>>

\* client.FilterLogs fails (main.go:152-156).
FilterLogsError ==
    /\ pc = "fetch"
    /\ issued' = TRUE
    /\ Abort("fetchfail")
    /\ bootDb' = <<>>
    /\ UNCHANGED <<flagS, tickC, writes, nOk, overlap,
                   chain, chunkSize, startingBlock, lastBlock, toBlock, logs,
                   idx, cycles, restarts, pre, trace, delivered, redelivered,
                   abortFrom>>

\* client.FilterLogs answers (main.go:152).
FilterLogsOk ==
    /\ pc = "fetch"
    /\ issued' = TRUE
    /\ logs' = FilterLogs(chain, currentBlock, toBlock, lastBlock)
    /\ idx' = 1
    /\ pc' = "parse"
    /\ bootDb' = <<>>
    /\ UNCHANGED <<flagS, tickC, inProgress, writes, nOk, overlap,
                   chain, chunkSize, startingBlock, db, currentBlock, lastBlock,
                   toBlock, cycles, restarts, pre, outcome, trace, delivered,
                   redelivered, streak, abortFrom, lastSaved>>

\* Mutant of ParseAbort: the error of parseLogs is logged but the `break`
\* is missing, so the checkpoint is written and advanced all the same.
ParseAbortNoBreak ==
    /\ pc' = "idle"
    /\ inProgress' = inProgress - 1
    /\ outcome' = "parsefail"
    /\ streak' = NoStreak(currentBlock)
    /\ db' = Sprintf(currentBlock + chunkSize)
    /\ lastSaved' = Some(currentBlock + chunkSize)
    /\ currentBlock' = currentBlock + chunkSize
    /\ abortFrom' = Some(currentBlock)
    /\ UNCHANGED idx

\* Mutant of ParseAbort: the failing log is reported and the loop goes on
\* with the next log instead of returning.
ParseAbortContinue ==
    /\ idx' = idx + 1
    /\ UNCHANGED <<pc, outcome, streak, db, currentBlock, lastSaved, abortFrom,
                   inProgress>>

\* parseLogs returns an error at logs[idx] (main.go:181, 184, 206, 210, then
\* 158-161).
ParseAbort ==
    /\ Abort("parsefail")
    /\ abortFrom' = Some(currentBlock)
    /\ UNCHANGED idx

\* parseLogs is done with logs[idx] and moves on (main.go:177).
ParseNext == idx' = idx + 1 /\ UNCHANGED <<pc, outcome, streak, db, currentBlock,
                                           lastSaved, abortFrom, inProgress>>

\* l.Topics[0] on a log without topics: index out of range, the process
\* panics (main.go:178).
ParsePanic ==
    /\ pc = "parse" /\ idx <= Len(logs)
    /\ Len(logs[idx].Topics) = 0
    /\ pc' = "crashed"
    /\ tickC' = 0
    /\ inProgress' = 0
    /\ outcome' = "panic"
    /\ UNCHANGED <<bootDb, flagS, writes, nOk, overlap,
                   chain, chunkSize, startingBlock, db, currentBlock, lastBlock,
                   toBlock, logs, idx, cycles, restarts, pre, issued, trace,
                   delivered, redelivered, streak, abortFrom, lastSaved>>

\* A log of another event is passed over (main.go:178).
ParseSkip ==
    /\ pc = "parse" /\ idx <= Len(logs)
    /\ Len(logs[idx].Topics) > 0
    /\ ~Matches(logs[idx])
    /\ ParseNext
    /\ UNCHANGED <<bootDb, flagS, tickC, writes, nOk, overlap,
                   chain, chunkSize, startingBlock, lastBlock, toBlock, logs,
                   cycles, restarts, pre, issued, trace, delivered, redelivered>>

\* A log of the event fails to decode (main.go:180-185).
ParseDecodeError ==
    /\ pc = "parse" /\ idx <= Len(logs)
    /\ Len(logs[idx].Topics) > 0
    /\ Matches(logs[idx])
    /\ ~Decodes(logs[idx])
    /\ trace' = Append(trace, [pos |-> idx, result |-> "decodeErr", resp |-> NoResponse])
    /\ ParseAbort
    /\ UNCHANGED <<bootDb, flagS, tickC, writes, nOk, overlap,
                   chain, chunkSize, startingBlock, lastBlock, toBlock, logs,
                   cycles, restarts, pre, issued, delivered, redelivered>>

\* A log of the event is decoded and posted to the webhook, which answers r
\* (main.go:187-213).  r.err also stands for the errors of json.Marshal and
\* http.NewRequest, which end parseLogs the same way.
ParseDispatch ==
    /\ pc = "parse" /\ idx <= Len(logs)
    /\ Len(logs[idx].Topics) > 0
    /\ Matches(logs[idx])
    /\ Decodes(logs[idx])
    /\ \E r \in Responses :
         IF DeliveryOk(r)
         THEN /\ trace' = Append(trace, [pos |-> idx, result |-> "ok", resp |-> r])
              /\ delivered' = delivered \cup {LogId(logs[idx])}
              /\ redelivered' = (redelivered \/ LogId(logs[idx]) \in delivered)
              /\ ParseNext
         ELSE /\ trace' = Append(trace, [pos |-> idx, result |-> "dispatchErr", resp |-> r])
              /\ ParseAbort
              /\ UNCHANGED <<delivered, redelivered>>
    /\ UNCHANGED <<bootDb, flagS, tickC, writes, nOk, overlap,
                   chain, chunkSize, startingBlock, lastBlock, toBlock, logs,
                   cycles, restarts, pre, issued>>

\* What a failed os.WriteFile may leave in a file that held `old` when
\* `new` was to be written: the old content (open failed) or a proper
\* prefix of the new one (truncated, then the write failed).
FailedWrites(old, new) == {old} \cup {SubSeq(new, 1, n) : n \in 0..(Len(new) - 1)}

\* Mutant of Advance: the file gets the upper bound of the range, the
\* checkpoint in memory is advanced by the chunk size.
AdvanceWritingUpperBound ==
    /\ pc = "parse" /\ idx > Len(logs)
    /\ writes' = writes + 1
    /\ LET next == NextBlock(currentBlock, chunkSize, toBlock) IN
         /\ db' = Sprintf(toBlock)
         /\ lastSaved' = Some(next)
         /\ currentBlock' = next
    /\ pc' = "idle"
    /\ inProgress' = inProgress - 1
    /\ outcome' = "ok"
    /\ nOk' = nOk + 1
    /\ streak' = [streak EXCEPT !.len = @ + 1]
    /\ abortFrom' = Nothing
    /\ UNCHANGED <<bootDb, flagS, tickC, overlap,
                   chain, chunkSize, startingBlock, lastBlock, toBlock, logs,
                   idx, cycles, restarts, pre, issued, trace, delivered,
                   redelivered>>

\* parseLogs returned nil: the checkpoint is written and advanced
\* (main.go:163-167).
Advance ==
    /\ pc = "parse" /\ idx > Len(logs)
    /\ writes' = writes + 1
    /\ LET next == NextBlock(currentBlock, chunkSize, toBlock) IN
         /\ db' = Sprintf(next)
         /\ lastSaved' = Some(next)
         /\ currentBlock' = next
    /\ pc' = "idle"
    /\ inProgress' = inProgress - 1
    /\ outcome' = "ok"
    /\ nOk' = nOk + 1
    /\ streak' = [streak EXCEPT !.len = @ + 1]
    /\ abortFrom' = Nothing
    /\ UNCHANGED <<bootDb, flagS, tickC, overlap,
                   chain, chunkSize, startingBlock, lastBlock, toBlock, logs,
                   idx, cycles, restarts, pre, issued, trace, delivered,
                   redelivered>>

\* Mutant of AdvanceWriteError: the failed write is logged with log.Printf
\* and the loop goes on with the checkpoint advanced in memory.
AdvanceWriteErrorLogged ==
    /\ pc = "parse" /\ idx > Len(logs)
    /\ writes' = writes + 1
    /\ db' \in FailedWrites(db, Sprintf(NextBlock(currentBlock, chunkSize, toBlock)))
    /\ currentBlock' = NextBlock(currentBlock, chunkSize, toBlock)
    /\ pc' = "idle"
    /\ inProgress' = inProgress - 1
    /\ outcome' = "writefail"
    /\ UNCHANGED <<bootDb, flagS, tickC, nOk, overlap,
                   chain, chunkSize, startingBlock, lastBlock,
                   toBlock, logs, idx, cycles, restarts, pre, issued, trace,
                   delivered, redelivered, streak, abortFrom, lastSaved>>

\* os.WriteFile fails: log.Fatalf ends the process (main.go:163-165).
AdvanceWriteError ==
    /\ pc = "parse" /\ idx > Len(logs)
    /\ writes' = writes + 1
    /\ db' \in FailedWrites(db, Sprintf(NextBlock(currentBlock, chunkSize, toBlock)))
    /\ pc' = "exited"
    /\ tickC' = 0
    /\ inProgress' = 0
    /\ outcome' = "writefail"
    /\ UNCHANGED <<bootDb, flagS, nOk, overlap,
                   chain, chunkSize, startingBlock, currentBlock, lastBlock,
                   toBlock, logs, idx, cycles, restarts, pre, issued, trace,
                   delivered, redelivered, streak, abortFrom, lastSaved>>

Next ==
    \/ Startup
    \/ StartupFatal
    \/ Restart
    \/ TimerFires
    \/ TickHeaderError
    \/ TickHeader
    \/ FilterLogsError
    \/ FilterLogsOk
    \/ ParsePanic
    \/ ParseSkip
    \/ ParseDecodeError
    \/ ParseDispatch
    \/ Advance
    \/ AdvanceWriteError

Spec == Init /\ [][Next]_vars

\* ================================================================ claims
\* A cycle of this process run has started.
InCycleOrAfter == pc # "boot" /\ outcome # None

\* logs[j] is a log of the watched event.
IsMatch(j) == Len(logs[j].Topics) > 0 /\ Matches(logs[j])

\* Positions of logs the range loop of parseLogs has gone past.
Passed == 1..Min(idx - 1, Len(logs))

Attempted(j) == \E t \in 1..Len(trace) : trace[t].pos = j
Acknowledged(j) == \E t \in 1..Len(trace) : trace[t].pos = j /\ trace[t].result = "ok"

\* C1: the checkpoint (in memory and in the file) changes in a cycle only
\* if the head query, the fetch and the decode and dispatch of every
\* matching log succeeded; after a cycle in which the head query, the fetch,
\* a decode or a dispatch failed, both are what they were before it.
C1_CheckpointChangesOnlyOnSuccess ==
    InCycleOrAfter =>
      /\ outcome \in {"headfail", "fetchfail", "parsefail"}
           => currentBlock = pre.cp /\ db = pre.db
      /\ (currentBlock # pre.cp \/ db # pre.db)
           => /\ issued
              /\ idx > Len(logs)
              /\ \A j \in 1..Len(logs) : IsMatch(j) => Acknowledged(j)
              /\ \A t \in 1..Len(trace) : trace[t].result = "ok"

\* A cycle delivered a log and then failed on a later one: nothing moved.
C1_Witness ==
    /\ pc = "idle" /\ outcome = "parsefail"
    /\ Len(trace) >= 2
    /\ trace[1].result = "ok"
    /\ pre.db # <<>>
    /\ currentBlock = pre.cp /\ db = pre.db

\* C2: at-least-once delivery: every log of the watched event in a block b
\* with startingBlock <= b < currentBlock has been acknowledged by the
\* webhook; no block below the checkpoint was left unscanned.
C2_AtLeastOnce ==
    pc \in {"idle", "fetch", "parse"} =>
      \A b \in startingBlock..(currentBlock - 1) :
        \A k \in 1..Len(BlockLogs(chain, b)) :
          LET l == BlockLogs(chain, b)[k] IN
          (Len(l.Topics) > 0 /\ Matches(l)) => LogId(l) \in delivered

\* C3: resume after restart: when the file held the value V written by a
\* successful cycle as the process was started again, the process starts
\* from V and its first cycle scans from V.
C3_ResumeAfterRestart ==
    ( /\ restarts > 0
      /\ lastSaved.some
      /\ bootDb = Sprintf(lastSaved.val)
      /\ \/ pc = "idle" /\ cycles = 0
         \/ pc = "fetch" /\ cycles = 1 )
    => currentBlock = lastSaved.val

\* C4: after a successful cycle over [from, to], to = min(from + chunkSize,
\* head), the value in the file and the checkpoint in memory both equal to.
C4_AdvanceToUpperBound ==
    (pc = "idle" /\ outcome = "ok") =>
      /\ toBlock = Min(pre.cp + chunkSize, lastBlock)
      /\ currentBlock = toBlock
      /\ db = Sprintf(toBlock)

\* C5: a cycle whose observed head is below the checkpoint is a no-op: no
\* FilterLogs request, no webhook, checkpoint unchanged in memory and file.
C5_NoOpWhenBehind ==
    (InCycleOrAfter /\ outcome # "headfail" /\ lastBlock < pre.cp) =>
      /\ ~issued
      /\ trace = <<>>
      /\ currentBlock = pre.cp
      /\ db = pre.db

\* C6: the upper bound of a cycle's range never exceeds the head observed
\* at the start of the cycle; for chunkSize > 0 and head >= checkpoint,
\* to - from <= chunkSize and from <= to.
C6_RangeBounds ==
    pc \in {"fetch", "parse"} =>
      /\ toBlock <= lastBlock
      /\ (chunkSize > 0 /\ lastBlock >= currentBlock)
           => /\ toBlock - currentBlock <= chunkSize
              /\ currentBlock <= toBlock

\* A range cut at the chunk size, with the head further on.
C6_Witness ==
    /\ pc = "fetch"
    /\ chunkSize > 0
    /\ lastBlock > currentBlock + chunkSize
    /\ toBlock = currentBlock + chunkSize

\* C7: the checkpoint never decreases: after a cycle the checkpoint in
\* memory is >= its value before the cycle, and a value written to the file
\* is >= the one written by the cycle before, for every accepted chunk size.
C7_Monotonic ==
    InCycleOrAfter =>
      /\ currentBlock >= pre.cp
      /\ (outcome = "ok" /\ streak.len >= 2) => lastSaved.val >= pre.cp

\* C8: after N consecutive successful cycles from checkpoint start, with
\* every observed head >= start + N * chunkSize, the checkpoint is
\* start + N * chunkSize.
C8_NSuccessfulCycles ==
    ( /\ pc = "idle" /\ outcome = "ok"
      /\ streak.len >= 1
      /\ streak.minHead >= streak.start + streak.len * chunkSize )
    => currentBlock = streak.start + streak.len * chunkSize

\* Two successful cycles in a row, the head never below start + 2 * chunkSize.
C8_Witness ==
    /\ pc = "idle" /\ outcome = "ok"
    /\ chunkSize > 0
    /\ streak.len >= 2
    /\ streak.minHead >= streak.start + streak.len * chunkSize
    /\ currentBlock = streak.start + streak.len * chunkSize

\* C9: after a cycle aborted by a failed decode or dispatch, the next cycle
\* that gets to FilterLogs asks for a range with the same lower bound, and
\* its parseLogs attempts every matching log from the first one on, those
\* acknowledged in the aborted cycle included.
C9_RetrySameRange ==
    (abortFrom.some /\ pc \in {"fetch", "parse"}) =>
      /\ currentBlock = abortFrom.val
      /\ pc = "parse" => \A j \in Passed : IsMatch(j) => Attempted(j)

\* The cycle after an aborted one has had a log acknowledged a second time.
C9_Witness ==
    /\ restarts = 0 /\ cycles = 2
    /\ abortFrom.some
    /\ pc = "parse"
    /\ currentBlock = abortFrom.val
    /\ Len(trace) >= 1 /\ trace[1].result = "ok"
    /\ redelivered

\* C10: in a cycle the webhook is called for the matching logs in the order
\* FilterLogs returned them, none left out, and the first failed decode or
\* dispatch ends the cycle: no later log is decoded or dispatched.
C10_InOrderStopAtFirstFailure ==
    LET n == Len(trace) IN
    /\ \A t \in 1..n : trace[t].pos \in 1..Len(logs) /\ IsMatch(trace[t].pos)
    /\ \A t \in 1..(n - 1) : trace[t].pos < trace[t + 1].pos /\ trace[t].result = "ok"
    /\ (n > 0 /\ pc \in {"parse", "idle", "exited", "crashed"})
         => \A j \in 1..trace[n].pos : IsMatch(j) => Attempted(j)
    /\ (n > 0 /\ trace[n].result # "ok")
         => pc = "idle" /\ outcome = "parsefail" /\ idx = trace[n].pos

\* A dispatch failed after an acknowledged one, with matching logs left.
C10_Witness ==
    /\ Len(trace) >= 2
    /\ trace[Len(trace)].result = "dispatchErr"
    /\ pc = "idle"
    /\ \E j \in 1..Len(logs) : j > trace[Len(trace)].pos /\ IsMatch(j)


\* s is the decimal text of an integer >= 0.
IsNonNegDecimal(s) == s # <<>> /\ \A i \in 1..Len(s) : DigitValue(s[i]) >= 0

\* C11: a checkpoint file that is absent, empty or holds no non-negative
\* decimal integer does not stop startup: the process gets to its loop and
\* the checkpoint it starts from is the value of the -s flag.
C11_BadFileFallsBackToDefault ==
    /\ (pc = "boot" /\ ~IsNonNegDecimal(db)) => ENABLED Startup
    /\ (pc = "idle" /\ cycles = 0 /\ ~IsNonNegDecimal(bootDb))
         => currentBlock = flagS /\ startingBlock = flagS

\* Started on a file holding text that is no number, with -s 1.
C11_Witness ==
    /\ pc = "idle" /\ cycles = 0
    /\ bootDb = <<"x">>
    /\ flagS = 1
    /\ currentBlock = 1


\* C12: a fetched log without topics is skipped without error: it is not
\* dispatched, it neither aborts the cycle nor stops the process, and the
\* loop goes on with the next log.
C12_NoTopicsSkipped ==
    \A j \in 1..Len(logs) :
      Len(logs[j].Topics) = 0 =>
        /\ ~Attempted(j)
        /\ ~(idx = j /\ pc \in {"crashed", "exited"})
        /\ ~(idx = j /\ pc = "idle" /\ outcome = "parsefail")


\* logs[j] has topics and its first topic is not the watched event's hash.
FirstTopicDiffers(j) == Len(logs[j].Topics) > 0 /\ logs[j].Topics[1] # "evt"

\* C13: a log whose first topic is not the watched event's hash is neither
\* decoded nor dispatched and does not make the cycle fail: a cycle whose
\* logs are all of other events calls no webhook and advances the checkpoint.
C13_OtherEventsIgnored ==
    /\ \A j \in 1..Len(logs) : FirstTopicDiffers(j) => ~Attempted(j)
    /\ ( /\ pc = "parse" \/ outcome \in {"ok", "parsefail", "writefail"}
         /\ \A j \in 1..Len(logs) : FirstTopicDiffers(j) )
       => /\ trace = <<>>
          /\ outcome # "parsefail"
          /\ pc = "idle" => outcome = "ok" /\ currentBlock = pre.cp + chunkSize

\* A cycle that fetched logs of other events only has advanced.
C13_Witness ==
    /\ pc = "idle" /\ outcome = "ok"
    /\ Len(logs) > 0
    /\ \A j \in 1..Len(logs) : FirstTopicDiffers(j)
    /\ trace = <<>>
    /\ currentBlock = pre.cp + chunkSize


\* C14: a delivery counts as a success exactly when the request completed
\* without transport error with a status in 200..299; every other answer
\* is a failure that aborts the cycle, and no log is posted twice in a cycle.
C14_DeliveryClassification ==
    \A t \in 1..Len(trace) :
      trace[t].result # "decodeErr" =>
        LET r == trace[t].resp IN
        /\ trace[t].result = "ok"
             <=> (~r.err /\ 200 <= r.StatusCode /\ r.StatusCode <= 299)
        /\ trace[t].result = "ok" => LogId(logs[trace[t].pos]) \in delivered
        /\ trace[t].result = "dispatchErr"
             => /\ t = Len(trace)
                /\ pc = "idle" /\ outcome = "parsefail"
                /\ currentBlock = pre.cp /\ db = pre.db
        /\ \A u \in 1..Len(trace) : u # t => trace[u].pos # trace[t].pos

\* A log acknowledged with status 299, the next one refused with status 300.
C14_Witness ==
    /\ Len(trace) >= 2
    /\ trace[1].result = "ok" /\ trace[1].resp.StatusCode = 299
    /\ trace[Len(trace)].result = "dispatchErr"
    /\ ~trace[Len(trace)].resp.err
    /\ trace[Len(trace)].resp.StatusCode = 300
    /\ pc = "idle"


\* A step of the scan loop: a tick served or a cycle carried on.
LoopStep ==
    \/ TickHeaderError \/ TickHeader
    \/ FilterLogsError \/ FilterLogsOk
    \/ ParsePanic \/ ParseSkip \/ ParseDecodeError \/ ParseDispatch
    \/ Advance \/ AdvanceWriteError

\* C15: when the write of the advanced checkpoint fails, the process stops:
\* the loop takes no further step (no cycle, no webhook) and the checkpoint
\* in memory is the one the cycle started from.
C15_WriteFailureStops ==
    outcome = "writefail" =>
      /\ pc = "exited"
      /\ currentBlock = pre.cp
      /\ ~ENABLED LoopStep

\* The write failed after the cycle's logs were acknowledged and left the
\* file emptied.
C15_Witness ==
    /\ outcome = "writefail"
    /\ pc = "exited"
    /\ Len(trace) >= 1
    /\ pre.db # <<>> /\ db = <<>>
    /\ cycles < MaxCycles


\* C17: cycles never overlap: at most one cycle is in progress at any time,
\* and a tick that fires while a cycle runs waits until that cycle has
\* finished or aborted.
C17_NoOverlappingCycles ==
    /\ inProgress \in {0, 1}
    /\ inProgress = 1 <=> pc \in {"fetch", "parse"}
    /\ (tickC = 1 /\ pc \in {"fetch", "parse"}) => outcome = "running"

\* A tick has fired during a cycle that has posted a log and goes on.
C17_Witness ==
    /\ pc = "parse"
    /\ tickC = 1
    /\ inProgress = 1
    /\ Len(trace) >= 1


\* C18: the checkpoint file is written once in a successful cycle, after all
\* its dispatches succeeded, and never else: startup and aborted cycles
\* leave the content of the file as it was.
C18_FileWrittenOnlyOnSuccess ==
    /\ (pc = "idle" /\ cycles = 0) => db = bootDb
    /\ outcome \in {"headfail", "fetchfail", "parsefail"}
         => writes = 0 /\ db = pre.db
    /\ pc \in {"fetch", "parse"} => writes = 0 /\ db = pre.db
    /\ outcome = "ok"
         => /\ writes = 1
            /\ \A t \in 1..Len(trace) : trace[t].result = "ok"


\* C19: whenever the loop is idle after a successful cycle of this process
\* run, the number in the checkpoint file is the checkpoint held in memory.
C19_FileEqualsMemoryWhenIdle ==
    (pc = "idle" /\ nOk >= 1)
      => ParseInt(db, 10, 64) = [val |-> currentBlock, err |-> None]

\* Idle after a successful cycle and an aborted one after it.
C19_Witness ==
    /\ pc = "idle"
    /\ nOk >= 1
    /\ outcome = "parsefail"
    /\ Len(trace) >= 2
    /\ ParseInt(db, 10, 64).val = currentBlock


\* C20: in a process run without aborted cycle or restart, the inclusive
\* ranges of consecutive successful cycles share no block, so no matching
\* log is acknowledged by the webhook more than once (stated here for
\* positive chunk sizes, where block ranges are plain).
C20_NoOverlapNoDuplicate ==
    (pc = "idle" /\ restarts = 0 /\ cycles >= 1 /\ nOk = cycles /\ chunkSize > 0)
      => ~overlap /\ ~redelivered


\* The ticker keeps ticking and the loop, once back in its select, receives
\* the next tick: a served tick is never put off for ever.
LiveSpec == Spec /\ WF_vars(TickHeader \/ TickHeaderError)

AbortedOutcomes == {"headfail", "fetchfail", "parsefail"}

\* C16: transient errors do not stop the process: after a cycle aborted by
\* a failed head query, fetch, decode or delivery the loop is idle again,
\* and with the ticker ticking a new cycle starts on a later tick (unless
\* the process is stopped from outside first).
C16_AbortedCycleIsRetried ==
    /\ [](outcome \in AbortedOutcomes => pc = "idle")
    /\ \A n \in 0..(MaxCycles - 1) :
         (pc = "idle" /\ outcome \in AbortedOutcomes /\ cycles = n)
           ~> (cycles = n + 1 \/ pc = "boot")

\* Idle after a cycle aborted by a failed delivery, ticks left to serve.
C16_Witness ==
    /\ pc = "idle"
    /\ outcome = "parsefail"
    /\ Len(trace) >= 1
    /\ trace[Len(trace)].result = "dispatchErr"
    /\ cycles = 2
    /\ cycles < MaxCycles

====
